---- MODULE Spec2Model ----
(***************************************************************************)
(* Marker clustering engine of the Seattle hotel map                       *)
(* (src/src/hooks/useDebounced.ts, lines 101-378): projection math, the    *)
(* greedy proximity grouping, the entry point calculateClusters, and the   *)
(* module-level result cache behind calculateClustersCached.               *)
(*                                                                         *)
(* Numbers.  The source computes in IEEE doubles; the model computes in    *)
(* fixed point, in integers that stay below 2^31:                          *)
(*   latitude, longitude   1e-4 degree   (47.6089 deg  is  476089)         *)
(*   zoom                  1e-2 level    (12.04        is  1204)           *)
(*   distances             metres        (the source's km * 1000)          *)
(*   cosines, 2^fraction   scaled by 10000                                 *)
(* The haversine formula is evaluated with sin x = x and                   *)
(* atan2(sqrt a, sqrt(1-a)) = sqrt a, exact to 1e-8 for the city-scale     *)
(* coordinate differences (below 0.05 degree) the model uses.              *)
(***************************************************************************)
EXTENDS Integers, Sequences, FiniteSets, TLC

VARIABLES
    clusterCache,   \* the module-level Map, as the sequence of its entries in insertion order
    op,             \* the operation that ran last
    args,           \* the arguments of the last clustering call: [hotels, zoom, config]
    ret,            \* what that call returned: [clusters, individualHotels]
    miss,           \* TRUE when that call ran the clustering computation
    calls,          \* number of calculateClustersCached calls so far
    ref,            \* history: one earlier calculateClustersCached call, <<args, ret>>
    missCount,      \* history: per cache key, the calls that missed
    dropCount,      \* history: per cache key, the entries evicted or cleared
    debounce,       \* one component using useDebounced: its props, state and timers
    hotelMap        \* the HotelMap component: selection, animation flag, timeout, flyTo calls

vars == <<clusterCache, op, args, ret, miss, calls, ref, missCount, dropCount,
          debounce, hotelMap>>

-----------------------------------------------------------------------------
(* Bounds of the model *)

MaxHotels == 4        \* longest hotel list passed to a clustering call
MaxCalls == 3         \* calculateClustersCached calls in one behaviour of Spec, SpecHistory and SpecKey
MaxZoomCalls == 54    \* calculateClustersCached calls in one behaviour of SpecZoom
MaxPixels == 1000     \* longest pixel distance converted back to metres in SpecProjection
MaxRenders == 3       \* renders of the useDebounced component with a changed value or delay
MaxSelections == 4    \* changes of the selectedHotel prop of HotelMap in one behaviour

-----------------------------------------------------------------------------
(* Program constants *)

EarthRadiusKm == 6371
MetersPerPixelZoom0 == 156543
CacheSizeLimit == 50

DEFAULT_CLUSTERING_CONFIG ==
    [minZoom |-> 800, maxZoom |-> 1400, clusterRadius |-> 50, maxClusterSize |-> 50]

-----------------------------------------------------------------------------
(* Fixed-point helpers (Math.sqrt, Math.cos, Math.pow(2, .)) *)

Min(a, b) == IF a < b THEN a ELSE b

Max(a, b) == IF a > b THEN a ELSE b

Abs(x) == IF x < 0 THEN -x ELSE x

RECURSIVE IsqrtBetween(_, _, _)
IsqrtBetween(n, lo, hi) ==
    IF lo >= hi THEN lo
    ELSE LET mid == (lo + hi + 1) \div 2
         IN  IF mid * mid <= n THEN IsqrtBetween(n, mid, hi)
                               ELSE IsqrtBetween(n, lo, mid - 1)

\* floor of the square root, 0 <= n < 2^31
Isqrt(n) == IsqrtBetween(n, 0, 46340)

\* 10000 * cos(latitude), latitude in 1e-4 degree, by the Taylor series to x^8
Cos(latitude) ==
    LET x  == ((Abs(latitude) \div 10) * 17453) \div 100000   \* radians * 10000
        x2 == (x * x) \div 10000
        x4 == (x2 * x2) \div 10000
        x6 == (x4 * x2) \div 10000
        x8 == (x4 * x4) \div 10000
    IN  10000 - (x2 \div 2) + (x4 \div 24) - (x6 \div 720) + (x8 \div 40320)

\* 10000 * 2^(f/100) for 0 <= f < 100, by the series of exp(f * ln 2 / 100)
Pow2Frac(f) ==
    LET y  == (f * 6931) \div 100                             \* f * ln 2 / 100, * 10000
        y2 == (y * y) \div 10000
        y3 == (y2 * y) \div 10000
        y4 == (y3 * y) \div 10000
        y5 == (y4 * y) \div 10000
        y6 == (y5 * y) \div 10000
    IN  10000 + y + (y2 \div 2) + (y3 \div 6) + (y4 \div 24) + (y5 \div 120) + (y6 \div 720)

RECURSIVE Pow2Int(_)
Pow2Int(n) == IF n <= 0 THEN 1 ELSE 2 * Pow2Int(n - 1)

-----------------------------------------------------------------------------
(* Clustering utilities *)

\* the range with no upper end
shouldClusterAboveMin(zoom, config) == zoom >= config.minZoom

\* the range without its upper end
shouldClusterBelowMax(zoom, config) == zoom >= config.minZoom /\ zoom < config.maxZoom

\* lines 122-124
shouldCluster(zoom, config) == zoom >= config.minZoom /\ zoom <= config.maxZoom

\* metres between two coordinates (haversine, Earth radius 6371 km)
calculateDistance(coord1, coord2) ==
    LET dLat == coord2.latitude - coord1.latitude
        dLon == coord2.longitude - coord1.longitude
        cc   == (Cos(coord1.latitude) * Cos(coord2.latitude)) \div 10000
        \* a = sin^2(dLat/2) + cos cos sin^2(dLon/2), in (1e-4 degree / 2)^2
        a    == dLat * dLat + (cc * dLon * dLon) \div 10000
        \* metres per 1e-4 degree of arc, * 1000: R * pi / 180
        mPerUnit == (EarthRadiusKm * 17453) \div 10000
    IN  (Isqrt(a * 10000) * mPerUnit) \div 100000

\* line 149: 1000 * metersPerPixel = 156543.03392 * cos(latitude) / 2^zoom
MetersPerPixel(latitude, zoom) ==
    LET whole == zoom \div 100
        frac  == zoom % 100
    IN  (((MetersPerPixelZoom0 * Cos(latitude)) \div (Pow2Frac(frac) \div 10)) * 100)
            \div Pow2Int(whole)

\* the conversion with the cosine of the latitude left out
geoDistanceToPixelDistanceAtEquator(geoDistance, latitude, zoom) ==
    (geoDistance * 1000) \div MetersPerPixel(0, zoom)

\* lines 144-151: whole pixels covered by geoDistance metres at this latitude and zoom
geoDistanceToPixelDistance(geoDistance, latitude, zoom) ==
    (geoDistance * 1000) \div MetersPerPixel(latitude, zoom)

\* the conversion with the division by 2^zoom left out
pixelDistanceToGeoDistanceAtZoom0(pixelDistance, latitude, zoom) ==
    (((MetersPerPixelZoom0 * Cos(latitude)) \div 1000) * pixelDistance) \div 10

\* lines 156-163: metres covered by pixelDistance pixels at this latitude and zoom
pixelDistanceToGeoDistance(pixelDistance, latitude, zoom) ==
    LET atZoom0 == ((MetersPerPixelZoom0 * Cos(latitude)) \div 1000) * pixelDistance
        whole   == zoom \div 100
        frac    == zoom % 100
    IN  (((atZoom0 \div (Pow2Frac(frac) \div 10)) * 1000) \div Pow2Int(whole)) \div 10

\* lines 249-250: one radius for the whole pass, from the mean latitude of the input
ClusterRadiusGeo(hotels, zoom, config) ==
    LET RECURSIVE SumLat(_)
        SumLat(k) == IF k = 0 THEN 0 ELSE SumLat(k - 1) + hotels[k].latitude
        avgLatitude == SumLat(Len(hotels)) \div Len(hotels)
    IN  pixelDistanceToGeoDistance(config.clusterRadius, avgLatitude, zoom)

-----------------------------------------------------------------------------
(* Cluster aggregation.  Ratings are in hundredths of a point, prices in cents;
   a quotient is rounded down to the unit. *)

\* a JavaScript value with its typeof: a number, or a string as its characters
JsNumber(value) == [typeof |-> "number", value |-> value]

JsString(chars) == [typeof |-> "string", value |-> chars]

Digits == <<"0", "1", "2", "3", "4", "5", "6", "7", "8", "9">>

IsDigit(char) == \E d \in DOMAIN Digits : Digits[d] = char

DigitValue(char) == (CHOOSE d \in DOMAIN Digits : Digits[d] = char) - 1

RECURSIVE SkipSpaces(_)
SkipSpaces(chars) ==
    IF chars # <<>> /\ Head(chars) = " " THEN SkipSpaces(Tail(chars)) ELSE chars

RECURSIVE LeadingDigits(_)
LeadingDigits(chars) ==
    IF chars # <<>> /\ IsDigit(Head(chars))
    THEN <<Head(chars)>> \o LeadingDigits(Tail(chars))
    ELSE <<>>

RECURSIVE DigitsValue(_)
DigitsValue(digits) ==
    IF digits = <<>> THEN 0
    ELSE DigitsValue(SubSeq(digits, 1, Len(digits) - 1)) * 10 + DigitValue(digits[Len(digits)])

\* line 224: parseFloat(text) || 0, in cents.  parseFloat skips leading blanks and
\* reads the longest prefix sign digits [. digits]; with no digit at all it gives
\* NaN, which || turns into 0.  (Exponents and "Infinity" are left out: no input
\* of the model has them.)
ParseFloatOr0(chars) ==
    LET text   == SkipSpaces(chars)
        signed == text # <<>> /\ Head(text) \in {"+", "-"}
        sign   == IF text # <<>> /\ Head(text) = "-" THEN -1 ELSE 1
        number == IF signed THEN Tail(text) ELSE text
        whole  == LeadingDigits(number)
        rest   == SubSeq(number, Len(whole) + 1, Len(number))
        frac   == IF rest # <<>> /\ Head(rest) = "." THEN LeadingDigits(Tail(rest)) ELSE <<>>
        cents  == DigitsValue(SubSeq(frac \o <<"0", "0">>, 1, 2))
    IN  IF whole = <<>> /\ frac = <<>> THEN 0
        ELSE sign * (DigitsValue(whole) * 100 + cents)

\* only a number counts as a price, a string is taken as 0
PriceNumberOrZero(price_per_night) ==
    IF price_per_night.typeof = "number" THEN price_per_night.value ELSE 0

\* lines 221-225: a numeric price as it is, any other through parseFloat
PriceNumber(price_per_night) ==
    IF price_per_night.typeof = "number"
    THEN price_per_night.value
    ELSE ParseFloatOr0(price_per_night.value)

\* Math.min() and Math.max() of no arguments are Infinity and -Infinity
Infinity == 2147483647

RECURSIVE MathMin(_)
MathMin(numbers) ==
    IF numbers = <<>> THEN Infinity ELSE Min(Head(numbers), MathMin(Tail(numbers)))

RECURSIVE MathMax(_)
MathMax(numbers) ==
    IF numbers = <<>> THEN -Infinity ELSE Max(Head(numbers), MathMax(Tail(numbers)))

RECURSIVE Sum(_)
Sum(numbers) == IF numbers = <<>> THEN 0 ELSE Head(numbers) + Sum(Tail(numbers))

Latitudes(hotels) == [k \in DOMAIN hotels |-> hotels[k].latitude]

Longitudes(hotels) == [k \in DOMAIN hotels |-> hotels[k].longitude]

\* lines 168-186
getClusterBounds(hotels) ==
    IF Len(hotels) = 0 THEN [north |-> 0, south |-> 0, east |-> 0, west |-> 0]
    ELSE [north |-> Max(hotels[1].latitude, MathMax(Latitudes(hotels))),
          south |-> Min(hotels[1].latitude, MathMin(Latitudes(hotels))),
          east  |-> Max(hotels[1].longitude, MathMax(Longitudes(hotels))),
          west  |-> Min(hotels[1].longitude, MathMin(Longitudes(hotels)))]

\* lines 191-203
getClusterCenter(hotels) ==
    IF Len(hotels) = 0 THEN [latitude |-> 0, longitude |-> 0]
    ELSE [latitude  |-> Sum(Latitudes(hotels)) \div Len(hotels),
          longitude |-> Sum(Longitudes(hotels)) \div Len(hotels)]

\* lines 208-213
getClusterAvgRating(hotels) ==
    IF Len(hotels) = 0 THEN 0
    ELSE Sum([k \in DOMAIN hotels |-> hotels[k].rating]) \div Len(hotels)

\* the price range with no test for the empty list
getClusterPriceRangeUnguarded(hotels) ==
    LET prices == [k \in DOMAIN hotels |-> PriceNumber(hotels[k].price_per_night)]
    IN  [min |-> MathMin(prices), max |-> MathMax(prices)]

\* lines 218-231
getClusterPriceRange(hotels) ==
    IF Len(hotels) = 0 THEN [min |-> 0, max |-> 0]
    ELSE LET prices == [k \in DOMAIN hotels |-> PriceNumber(hotels[k].price_per_night)]
         IN  [min |-> MathMin(prices), max |-> MathMax(prices)]

-----------------------------------------------------------------------------
(* Grouping *)

\* line 282: the id template `cluster-${i}-${clusterHotels.length}`, as the sequence
\* of its "-"-separated parts; i is the seed's 0-based index in the input array
ClusterId(i, clusterHotels) == <<"cluster", i, Len(clusterHotels)>>

\* a cluster object whose count leaves the seed out
MakeClusterCountingJoined(i, clusterHotels) ==
    [id        |-> ClusterId(i, clusterHotels),
     center    |-> getClusterCenter(clusterHotels),
     hotels    |-> clusterHotels,
     count     |-> Len(clusterHotels) - 1,
     avgRating |-> getClusterAvgRating(clusterHotels),
     priceRange |-> getClusterPriceRange(clusterHotels),
     bounds    |-> getClusterBounds(clusterHotels)]

\* lines 281-289: the cluster object
MakeCluster(i, clusterHotels) ==
    [id        |-> ClusterId(i, clusterHotels),
     center    |-> getClusterCenter(clusterHotels),
     hotels    |-> clusterHotels,
     count     |-> Len(clusterHotels),
     avgRating |-> getClusterAvgRating(clusterHotels),
     priceRange |-> getClusterPriceRange(clusterHotels),
     bounds    |-> getClusterBounds(clusterHotels)]

\* the distance test with twice the radius
JoinsWithinDiameter(distance, clusterRadiusGeo, clusterHotels, config) ==
    distance <= 2 * clusterRadiusGeo /\ Len(clusterHotels) < config.maxClusterSize

\* the size test stopping one short of the cap
JoinsBelowCap(distance, clusterRadiusGeo, clusterHotels, config) ==
    distance <= clusterRadiusGeo /\ Len(clusterHotels) < config.maxClusterSize - 1

\* the size test off by one
JoinsPastCap(distance, clusterRadiusGeo, clusterHotels, config) ==
    distance <= clusterRadiusGeo /\ Len(clusterHotels) <= config.maxClusterSize

\* line 273: may otherHotel join the group of the seed?
Joins(distance, clusterRadiusGeo, clusterHotels, config) ==
    distance <= clusterRadiusGeo /\ Len(clusterHotels) < config.maxClusterSize

\* lines 264-277: the inner loop over j = i+1 .. (1-based here), for the seed at i
RECURSIVE FindNearby(_, _, _, _, _, _)
FindNearby(hotels, i, j, clusterRadiusGeo, config, st) ==
    IF j > Len(hotels) THEN st
    ELSE IF j \in st.processed
         THEN FindNearby(hotels, i, j + 1, clusterRadiusGeo, config, st)
         ELSE LET distance == calculateDistance(hotels[i], hotels[j])
              IN  IF Joins(distance, clusterRadiusGeo, st.clusterHotels, config)
                  THEN FindNearby(hotels, i, j + 1, clusterRadiusGeo, config,
                         [clusterHotels |-> Append(st.clusterHotels, hotels[j]),
                          processed |-> st.processed \cup {j}])
                  ELSE FindNearby(hotels, i, j + 1, clusterRadiusGeo, config, st)

\* lines 256-291: the outer loop over the seeds
RECURSIVE GroupFrom(_, _, _, _, _, _)
GroupFrom(hotels, i, clusterRadiusGeo, config, processed, clusters) ==
    IF i > Len(hotels) THEN clusters
    ELSE IF i \in processed
         THEN GroupFrom(hotels, i + 1, clusterRadiusGeo, config, processed, clusters)
         ELSE LET st == FindNearby(hotels, i, i + 1, clusterRadiusGeo, config,
                          [clusterHotels |-> <<hotels[i]>>, processed |-> processed \cup {i}])
              IN  GroupFrom(hotels, i + 1, clusterRadiusGeo, config, st.processed,
                            IF Len(st.clusterHotels) > 1
                            THEN Append(clusters, MakeCluster(i - 1, st.clusterHotels))
                            ELSE clusters)

groupHotelsByProximity(hotels, zoom, config) ==
    IF Len(hotels) = 0 THEN <<>>
    ELSE IF Len(hotels) = 1 THEN <<>>
    ELSE GroupFrom(hotels, 1, ClusterRadiusGeo(hotels, zoom, config), config, {}, <<>>)

\* lines 313-315: the hotel_ids of every cluster member
ClusteredHotelIds(clusters) ==
    UNION {{clusters[c].hotels[k].hotel_id : k \in DOMAIN clusters[c].hotels} :
           c \in DOMAIN clusters}

\* the filter left out
IndividualHotelsUnfiltered(hotels, clusteredHotelIds) == hotels

\* the filter turned round: the hotels some cluster holds
IndividualHotelsClustered(hotels, clusteredHotelIds) ==
    SelectSeq(hotels, LAMBDA hotel : hotel.hotel_id \in clusteredHotelIds)

\* line 317: the hotels whose id no cluster holds, in input order
IndividualHotels(hotels, clusteredHotelIds) ==
    SelectSeq(hotels, LAMBDA hotel : hotel.hotel_id \notin clusteredHotelIds)

calculateClusters(hotels, zoom, config) ==
    IF ~shouldCluster(zoom, config)
    THEN [clusters |-> <<>>, individualHotels |-> hotels]
    ELSE LET clusters == groupHotelsByProximity(hotels, zoom, config)
         IN  [clusters |-> clusters,
              individualHotels |-> IndividualHotels(hotels, ClusteredHotelIds(clusters))]

\* both branches of the size test call calculateClusters
calculateClustersOptimized(hotels, zoom, config) ==
    IF Len(hotels) <= 100
    THEN calculateClusters(hotels, zoom, config)
    ELSE calculateClusters(hotels, zoom, config)

-----------------------------------------------------------------------------
(* The result cache *)

\* zoom.toFixed(1): the zoom in tenths, rounded to nearest
ToFixed1(zoom) == (zoom + 5) \div 10

\* a key made of the zoom as it is, not of its toFixed(1)
CacheKeyExactZoom(hotels, zoom, config) == <<Len(hotels), zoom, config.clusterRadius>>

\* line 353: `${hotels.length}-${viewport.zoom.toFixed(1)}-${config.clusterRadius}`,
\* as the sequence of its "-"-separated parts
CacheKey(hotels, zoom, config) == <<Len(hotels), ToFixed1(zoom), config.clusterRadius>>

\* a lookup that never finds the key
CacheHasNever(cache, key) == FALSE

\* Map.has
CacheHas(cache, key) == \E e \in DOMAIN cache : cache[e].key = key

\* a lookup that returns the newest entry whatever the key
CacheGetNewest(cache, key) == cache[Len(cache)].value

\* Map.get of a key the map has
CacheGet(cache, key) == cache[CHOOSE e \in DOMAIN cache : cache[e].key = key].value

\* lines 362-367: drop the first key in insertion order once the map is over the limit
EvictOldest(cache) == IF Len(cache) > CacheSizeLimit THEN Tail(cache) ELSE cache

\* Map.set of a key the map does not have: a new last entry
CacheSet(cache, key, value) == Append(cache, [key |-> key, value |-> value])

\* a clear that leaves the newest entry behind
CacheClearButNewest(cache) == IF cache = <<>> THEN cache ELSE <<cache[Len(cache)]>>

\* Map.clear
CacheClear(cache) == <<>>

Keys(cache) == {cache[e].key : e \in DOMAIN cache}

-----------------------------------------------------------------------------
(* History bookkeeping *)

Count(f, k) == IF k \in DOMAIN f THEN f[k] ELSE 0

Bump(f, ks) == [k \in DOMAIN f \cup ks |-> Count(f, k) + (IF k \in ks THEN 1 ELSE 0)]

NoCounts == [k \in {} |-> 0]

NoResult == [clusters |-> <<>>, individualHotels |-> <<>>]

NoArgs == [hotels |-> <<>>, zoom |-> 0, config |-> DEFAULT_CLUSTERING_CONFIG]

NoRef == <<>>

-----------------------------------------------------------------------------
(* Inputs *)

Hotel(id, lat, lon, rating, price) ==
    [hotel_id |-> id, latitude |-> lat, longitude |-> lon, rating |-> rating,
     price_per_night |-> price]

\* Hotels 1-3 are the test data of testClustering (lines 406-452): 1 and 2 are 76 m
\* apart, 3 is 1.7 km from both.  Hotel 4 lies between them, about 0.85 km from each
\* of 1, 2, 3 and 5; hotel 5 is 67 m from hotel 3.
Dataset ==
    << Hotel(1, 476089, -1223345, 850, JsNumber(20000)),
       Hotel(2, 476095, -1223340, 780, JsNumber(15000)),
       Hotel(3, 476200, -1223500, 920, JsNumber(30000)),
       Hotel(4, 476145, -1223420, 810, JsNumber(18000)),
       Hotel(5, 476205, -1223495, 880, JsNumber(25000)) >>

Range(s) == {s[k] : k \in DOMAIN s}

\* every array of up to MaxHotels distinct hotels of the dataset, in every order
HotelLists ==
    UNION {{s \in [1..n -> Range(Dataset)] : \A j, k \in 1..n : j # k => s[j] # s[k]} :
           n \in 0..Min(MaxHotels, Len(Dataset))}

\* zoom 11 (radius 2.6 km), 12 and 12.04 (1.3 km, one zoom bucket), 13 (0.64 km),
\* 7.5 and 14.5 (below and above the clustering range of the default config)
Zooms == {750, 1100, 1200, 1204, 1300, 1450}

Configs ==
    { DEFAULT_CLUSTERING_CONFIG,
      [DEFAULT_CLUSTERING_CONFIG EXCEPT !.maxClusterSize = 1],
      [DEFAULT_CLUSTERING_CONFIG EXCEPT !.maxClusterSize = 2],
      [DEFAULT_CLUSTERING_CONFIG EXCEPT !.maxClusterSize = 3],
      [DEFAULT_CLUSTERING_CONFIG EXCEPT !.clusterRadius = 25],
      [DEFAULT_CLUSTERING_CONFIG EXCEPT !.maxClusterSize = 0],
      [DEFAULT_CLUSTERING_CONFIG EXCEPT !.minZoom = 1400, !.maxZoom = 800] }

\* the hotels of testClustering (lines 406-452)
TestHotels == SubSeq(Dataset, 1, 3)

\* what HotelMap and DebugPanel pass: the hotels a filter leaves of the loaded ones,
\* in loaded order (the exported function also takes the empty list)
ShownLists ==
    {SelectSeq(TestHotels, LAMBDA h : h.hotel_id \in keep) :
     keep \in SUBSET {TestHotels[k].hotel_id : k \in DOMAIN TestHotels}}

\* zoom 11 (all of TestHotels within the radius), 12 and 12.04 (one zoom bucket)
ViewZooms == {1100, 1200, 1204}

\* HotelMap and DebugPanel always pass the default config
ViewConfigs == { DEFAULT_CLUSTERING_CONFIG }

\* 11.60 and 11.61 both print as "11.6"; the 50 px radius is 1.70 km at the first and
\* 1.69 km at the second, and hotels 1 and 3 are 1.694 km apart
KeyZooms == {1160, 1161}

\* the default, a cap of 2 and a radius of 25 px
KeyConfigs ==
    { DEFAULT_CLUSTERING_CONFIG,
      [DEFAULT_CLUSTERING_CONFIG EXCEPT !.maxClusterSize = 2],
      [DEFAULT_CLUSTERING_CONFIG EXCEPT !.clusterRadius = 25] }

\* hotels whose price came as a string: "150", "99.5", "N/A" and "$150"
StringPricedHotels ==
    << Hotel(6, 476100, -1223350, 800, JsString(<<"1", "5", "0">>)),
       Hotel(7, 476110, -1223360, 790, JsString(<<"9", "9", ".", "5">>)),
       Hotel(8, 476120, -1223370, 700, JsString(<<"N", "/", "A">>)),
       Hotel(9, 476130, -1223380, 750, JsString(<<"$", "1", "5", "0">>)) >>

\* one or two hotels, at least one of them with a string price, the other hotel 1
MixedPriceLists ==
    LET priced == Range(StringPricedHotels) \cup {Dataset[1]}
    IN  {<<h>> : h \in Range(StringPricedHotels)}
            \cup {pair \in priced \X priced :
                     /\ pair[1] # pair[2]
                     /\ \E k \in 1..2 : pair[k] \in Range(StringPricedHotels)}

\* the lists the aggregators are called with: up to two hotels
AggregatedLists == {hotels \in HotelLists : Len(hotels) <= 2} \cup MixedPriceLists

\* 7.5, the range ends 8 and 14 of the default config, 10 inside, 14.5 and 15 outside
PolicyZooms == {750, 800, 1000, 1400, 1450, 1500}

\* the default range 8..14, the range 10..12, and the one-zoom range 10..10
PolicyConfigs ==
    { DEFAULT_CLUSTERING_CONFIG,
      [DEFAULT_CLUSTERING_CONFIG EXCEPT !.minZoom = 1000, !.maxZoom = 1200],
      [DEFAULT_CLUSTERING_CONFIG EXCEPT !.minZoom = 1000, !.maxZoom = 1000] }

\* metres, from nothing to 1000 km
GeoDistances == {0, 1, 40, 76, 300, 1288, 5000, 20616, 100000, 1000000}

\* the equator, Seattle, 33.7 degrees south, 60 degrees north
ProjectionLatitudes == {0, 476089, -337000, 600000}

\* the whole world in one tile (0) up to building level (20)
ProjectionZooms == {0, 500, 800, 1200, 1204, 1250, 1600, 2000}

-----------------------------------------------------------------------------
(* Operations *)

\* no component is mounted
NotMounted == [mounted |-> FALSE]

\* the module as loaded: an empty cache and no call made yet
QuietCalls ==
    /\ clusterCache = <<>>
    /\ op = "start"
    /\ ret = NoResult
    /\ miss = FALSE
    /\ calls = 0
    /\ ref = NoRef
    /\ missCount = NoCounts
    /\ dropCount = NoCounts

Quiet ==
    /\ QuietCalls
    /\ debounce = NotMounted
    /\ hotelMap = NotMounted

\* a direct call of the exported calculateClusters (as testClustering makes, line 487)
CallCalculateClusters ==
    /\ op = "start"
    /\ op' = "calculateClusters"
    /\ ret' = calculateClusters(args.hotels, args.zoom, args.config)
    /\ UNCHANGED <<clusterCache, args, miss, calls, ref, missCount, dropCount,
                   debounce, hotelMap>>

\* what a call hands back when it returns normally
Returns(value) == [returned |-> value]

\* what a call hands back when it throws
Throws(error) == [thrown |-> error]

\* lines 122-124
CallShouldCluster ==
    /\ op = "start"
    /\ op' = "shouldCluster"
    /\ ret' = Returns(shouldCluster(args.zoom, args.config))
    /\ UNCHANGED <<clusterCache, args, miss, calls, ref, missCount, dropCount,
                   debounce, hotelMap>>

\* lines 168-186
CallGetClusterBounds ==
    /\ op = "start"
    /\ op' = "getClusterBounds"
    /\ ret' = Returns(getClusterBounds(args.hotels))
    /\ UNCHANGED <<clusterCache, args, miss, calls, ref, missCount, dropCount,
                   debounce, hotelMap>>

\* lines 191-203
CallGetClusterCenter ==
    /\ op = "start"
    /\ op' = "getClusterCenter"
    /\ ret' = Returns(getClusterCenter(args.hotels))
    /\ UNCHANGED <<clusterCache, args, miss, calls, ref, missCount, dropCount,
                   debounce, hotelMap>>

\* lines 208-213
CallGetClusterAvgRating ==
    /\ op = "start"
    /\ op' = "getClusterAvgRating"
    /\ ret' = Returns(getClusterAvgRating(args.hotels))
    /\ UNCHANGED <<clusterCache, args, miss, calls, ref, missCount, dropCount,
                   debounce, hotelMap>>

\* lines 218-231
CallGetClusterPriceRange ==
    /\ op = "start"
    /\ op' = "getClusterPriceRange"
    /\ ret' = Returns(getClusterPriceRange(args.hotels))
    /\ UNCHANGED <<clusterCache, args, miss, calls, ref, missCount, dropCount,
                   debounce, hotelMap>>

\* lines 144-151
CallGeoDistanceToPixelDistance ==
    /\ op = "start"
    /\ op' = "geoDistanceToPixelDistance"
    /\ ret' = Returns(geoDistanceToPixelDistance(args.geoDistance, args.latitude, args.zoom))
    /\ UNCHANGED <<clusterCache, args, miss, calls, ref, missCount, dropCount,
                   debounce, hotelMap>>

\* lines 156-163, called with the pixels the conversion before it returned
CallPixelDistanceToGeoDistance ==
    /\ op = "geoDistanceToPixelDistance"
    /\ ret.returned <= MaxPixels
    /\ op' = "pixelDistanceToGeoDistance"
    /\ ret' = Returns(pixelDistanceToGeoDistance(ret.returned, args.latitude, args.zoom))
    /\ UNCHANGED <<clusterCache, args, miss, calls, ref, missCount, dropCount,
                   debounce, hotelMap>>

\* lines 348-371; keep records this call in ref: its arguments, what it returned and
\* how many entries for its key had left the cache by then
CallCalculateClustersCached(hotels, zoom, config, keep) ==
    LET cacheKey == CacheKey(hotels, zoom, config)
        hit      == CacheHas(clusterCache, cacheKey)
        result   == calculateClustersOptimized(hotels, zoom, config)
        returned == IF hit THEN CacheGet(clusterCache, cacheKey) ELSE result
    IN  /\ op' = "calculateClustersCached"
        /\ args' = [hotels |-> hotels, zoom |-> zoom, config |-> config]
        /\ ret' = returned
        /\ miss' = ~hit
        /\ calls' = calls + 1
        /\ clusterCache' = IF hit THEN clusterCache
                           ELSE CacheSet(EvictOldest(clusterCache), cacheKey, result)
        /\ missCount' = IF hit THEN missCount ELSE Bump(missCount, {cacheKey})
        /\ dropCount' = Bump(dropCount, Keys(clusterCache) \ Keys(clusterCache'))
        /\ ref' = IF keep THEN <<args', returned, Count(dropCount', cacheKey)>> ELSE ref
        /\ UNCHANGED <<debounce, hotelMap>>

\* lines 376-378
CallClearClusterCache ==
    /\ op' = "clearClusterCache"
    /\ clusterCache' = CacheClear(clusterCache)
    /\ dropCount' = Bump(dropCount, Keys(clusterCache) \ Keys(clusterCache'))
    /\ UNCHANGED <<args, ret, miss, calls, ref, missCount, debounce, hotelMap>>

-----------------------------------------------------------------------------
(* Specifications *)

\* SpecPure: one call of calculateClusters on any input
InitPure ==
    /\ Quiet
    /\ args \in [hotels : HotelLists, zoom : Zooms, config : Configs]

NextPure == CallCalculateClusters

SpecPure == InitPure /\ [][NextPure]_vars

\* a second record with the hotel_id of hotel 1, 1.7 km from it beside hotel 3:
\* validateHotel tests each record on its own and never compares hotel_ids
TwinOfHotel1 == Hotel(1, 476198, -1223498, 700, JsNumber(12000))

\* hotel lists in which two records may share a hotel_id
DuplicateLists ==
    LET records == {Dataset[1], Dataset[2], Dataset[3], TwinOfHotel1}
    IN  UNION {{s \in [1..n -> records] : \A j, k \in 1..n : j # k => s[j] # s[k]} :
               n \in 0..Min(MaxHotels, 4)}

\* SpecDuplicate: one direct call of calculateClusters on a list that may hold
\* two records with one hotel_id
InitDuplicate ==
    /\ Quiet
    /\ args \in [hotels : DuplicateLists, zoom : Zooms, config : Configs]

NextDuplicate == CallCalculateClusters

SpecDuplicate == InitDuplicate /\ [][NextDuplicate]_vars

\* Spec: any sequence of cached calls and clears
Init ==
    /\ Quiet
    /\ args = NoArgs

CachedCall ==
    \E hotels \in ShownLists, zoom \in ViewZooms, config \in ViewConfigs :
        /\ calls < MaxCalls
        /\ CallCalculateClustersCached(hotels, zoom, config, FALSE)

ClearCall == CallClearClusterCache

Next == CachedCall \/ ClearCall

Spec == Init /\ [][Next]_vars

\* SpecHistory: as Spec, and any one call may be recorded in ref to compare later
\* calls with it
RecordedCall ==
    \E hotels \in ShownLists, zoom \in ViewZooms, config \in ViewConfigs :
        /\ calls < MaxCalls
        /\ \E keep \in (IF ref = NoRef THEN BOOLEAN ELSE {FALSE}) :
              CallCalculateClustersCached(hotels, zoom, config, keep)

NextHistory == RecordedCall \/ ClearCall

SpecHistory == Init /\ [][NextHistory]_vars

\* SpecUtil: one call of shouldCluster or of an aggregator on any input
InitUtil ==
    /\ Quiet
    /\ args \in [hotels : AggregatedLists, zoom : PolicyZooms, config : PolicyConfigs]

NextUtil ==
    \/ CallShouldCluster
    \/ CallGetClusterBounds
    \/ CallGetClusterCenter
    \/ CallGetClusterAvgRating
    \/ CallGetClusterPriceRange

SpecUtil == InitUtil /\ [][NextUtil]_vars

\* SpecProjection: a distance converted to pixels and the pixels converted back
InitProjection ==
    /\ Quiet
    /\ args \in [geoDistance : GeoDistances, latitude : ProjectionLatitudes,
                 zoom : ProjectionZooms]

NextProjection == CallGeoDistanceToPixelDistance \/ CallPixelDistanceToGeoDistance

SpecProjection == InitProjection /\ [][NextProjection]_vars

\* SpecKey: cached calls for one hotel list whose zoom moves inside one toFixed(1)
\* bucket and whose config varies in clusterRadius or maxClusterSize; any one call
\* may be recorded in ref
KeyCall ==
    \E zoom \in KeyZooms, config \in KeyConfigs :
        /\ calls < MaxCalls
        /\ \E keep \in (IF ref = NoRef THEN BOOLEAN ELSE {FALSE}) :
              CallCalculateClustersCached(TestHotels, zoom, config, keep)

NextKey == KeyCall \/ ClearCall

SpecKey == Init /\ [][NextKey]_vars

\* SpecZoom: HotelMap re-renders its markers as the user zooms (HotelMap.tsx lines
\* 173-197): inside the clustering range every new zoom is one cached call with the
\* loaded hotels and the default config.  The zoom moves a tenth of a level at a
\* time, or back to the lowest clustering zoom.
InitZoom ==
    /\ Quiet
    /\ args = [hotels |-> TestHotels, zoom |-> DEFAULT_CLUSTERING_CONFIG.minZoom,
               config |-> DEFAULT_CLUSTERING_CONFIG]

ZoomTo(zoom) ==
    /\ calls < MaxZoomCalls
    /\ zoom # args.zoom
    /\ shouldCluster(zoom, DEFAULT_CLUSTERING_CONFIG)
    /\ CallCalculateClustersCached(TestHotels, zoom, DEFAULT_CLUSTERING_CONFIG, FALSE)

ZoomIn == ZoomTo(args.zoom + 10)

ZoomOut == ZoomTo(args.zoom - 10)

ZoomReset == ZoomTo(DEFAULT_CLUSTERING_CONFIG.minZoom)

NextZoom == ZoomIn \/ ZoomOut \/ ZoomReset

SpecZoom == InitZoom /\ [][NextZoom]_vars

-----------------------------------------------------------------------------
(* Properties *)

\* the members of all clusters, in cluster order
RECURSIVE Members(_)
Members(clusters) ==
    IF clusters = <<>> THEN <<>> ELSE Head(clusters).hotels \o Members(Tail(clusters))

\* every hotel a result holds: cluster members, then individual hotels
Returned(result) == Members(result.clusters) \o result.individualHotels

Times(id, hotels) == Cardinality({k \in DOMAIN hotels : hotels[k].hotel_id = id})

\* out holds each hotel of hotels exactly once and nothing else
IsPartitionOf(out, hotels) ==
    /\ \A k \in DOMAIN hotels : Times(hotels[k].hotel_id, out) = 1
    /\ \A k \in DOMAIN out : out[k] \in Range(hotels)

RECURSIVE SortAscending(_)
SortAscending(numbers) ==
    IF numbers = {} THEN <<>>
    ELSE LET least == CHOOSE x \in numbers : \A y \in numbers : x <= y
         IN  <<least>> \o SortAscending(numbers \ {least})

IdSet(clusters) == {clusters[c].id : c \in DOMAIN clusters}

Reorderings(hotels) ==
    {s \in HotelLists : Len(s) = Len(hotels) /\ Range(s) = Range(hotels)}

LastKey == CacheKey(args.hotels, args.zoom, args.config)

\* C1 Partition totality: for hotels with distinct ids, every zoom and every config,
\* each input hotel appears exactly once across the members of all clusters and
\* individualHotels of what calculateClusters returns, and nothing else appears.
PartitionTotality ==
    op = "calculateClusters" => IsPartitionOf(Returned(ret), args.hotels)

PartitionWitness ==
    /\ op = "calculateClusters"
    /\ Len(ret.clusters) >= 1
    /\ Len(ret.individualHotels) >= 1

\* C2 The cache key captures the point set: what calculateClustersCached returns is
\* made of exactly the hotels passed to that call.
CachedReturnsOwnHotels ==
    op = "calculateClustersCached" => IsPartitionOf(Returned(ret), args.hotels)

\* C3 Cluster identity: the id of every cluster is "cluster-" followed by its
\* members' hotel_ids in ascending order, joined by "-".
IdFromSortedMembers ==
    op = "calculateClusters" =>
        \A c \in DOMAIN ret.clusters :
            ret.clusters[c].id =
                <<"cluster">> \o SortAscending(Range([k \in DOMAIN ret.clusters[c].hotels |->
                                                        ret.clusters[c].hotels[k].hotel_id]))

\* C4 Identity determinism under reordering: clustering any permutation of the input
\* array yields the same set of cluster ids.
SameIdsUnderReordering ==
    op = "calculateClusters" =>
        \A p \in Reorderings(args.hotels) :
            IdSet(calculateClusters(p, args.zoom, args.config).clusters) = IdSet(ret.clusters)

\* C5 History independence: two calculateClustersCached calls with the same point
\* set, zoom and config return identical clusters, whatever happened in between.
SameInputSameClusters ==
    ( /\ op = "calculateClustersCached"
      /\ ref # NoRef
      /\ Range(ref[1].hotels) = Range(args.hotels)
      /\ ref[1].zoom = args.zoom
      /\ ref[1].config = args.config )
    => ret.clusters = ref[2].clusters

\* C6 Cap respected: no returned cluster has more than config.maxClusterSize members.
CapRespected ==
    op = "calculateClusters" =>
        \A c \in DOMAIN ret.clusters :
            Len(ret.clusters[c].hotels) <= args.config.maxClusterSize

\* a cluster filled to the cap while another hotel within the radius of its seed
\* had to stay out
CapReached ==
    /\ op = "calculateClusters"
    /\ \E c \in DOMAIN ret.clusters : \E h \in Range(args.hotels) :
          /\ Len(ret.clusters[c].hotels) = args.config.maxClusterSize
          /\ h \notin Range(ret.clusters[c].hotels)
          /\ calculateDistance(ret.clusters[c].hotels[1], h)
               <= ClusterRadiusGeo(args.hotels, args.zoom, args.config)

\* C7 Cache hit contract: a call whose key is in the cache returns the stored result,
\* computes nothing and leaves the cache as it is; a call whose key is not computes,
\* stores the result under the key and returns it; and a call that follows a call
\* with the same key returns an equal result.
CacheHitContract ==
    [][ (op' = "calculateClustersCached" /\ calls' = calls + 1) =>
          LET key    == CacheKey(args'.hotels, args'.zoom, args'.config)
              stored == {e \in DOMAIN clusterCache : clusterCache[e].key = key}
          IN  /\ IF stored # {}
                 THEN /\ ~miss'
                      /\ clusterCache' = clusterCache
                      /\ \A e \in stored : ret' = clusterCache[e].value
                 ELSE /\ miss'
                      /\ ret' = calculateClusters(args'.hotels, args'.zoom, args'.config)
                      /\ \E e \in DOMAIN clusterCache' :
                            clusterCache'[e] = [key |-> key, value |-> ret']
              /\ (op = "calculateClustersCached" /\ key = LastKey) => ret' = ret
      ]_vars

\* a warm call served from a cache that holds other entries too
WarmCall ==
    /\ op = "calculateClustersCached"
    /\ ~miss
    /\ Len(clusterCache) >= 2

\* C8 as stated: a cache miss is observed exactly once per distinct cache key.
MissOncePerKey == \A k \in DOMAIN missCount : missCount[k] = 1

\* C8 as amended: a key misses once for each time an entry for it enters the cache: a
\* call misses exactly when the cache holds no entry for its key, so per key the
\* misses are the entries dropped so far (evicted or cleared) plus the one present.
MissOncePerResidence ==
    \A k \in DOMAIN missCount \cup DOMAIN dropCount \cup Keys(clusterCache) :
        Count(missCount, k) =
            Count(dropCount, k) + (IF k \in Keys(clusterCache) THEN 1 ELSE 0)

\* a key that was evicted and missed again
MissedAgain == \E k \in DOMAIN missCount : missCount[k] = 2 /\ Count(dropCount, k) = 1

\* C9 Bounded cache: the cache never holds more than 50 entries.
CacheWithinLimit == Len(clusterCache) <= CacheSizeLimit

\* C10 clearClusterCache purges every entry: right after it the cache is empty, and
\* the next calculateClustersCached call misses and returns what the clustering
\* computation yields for its own arguments.
ClearPurgesAll ==
    [][ /\ op' = "clearClusterCache" => clusterCache' = <<>>
        /\ (op = "clearClusterCache" /\ op' = "calculateClustersCached") =>
              /\ miss'
              /\ ret' = calculateClusters(args'.hotels, args'.zoom, args'.config)
      ]_vars

\* the first call after a clear, for a key the clear had purged
RecomputedAfterClear ==
    /\ op = "calculateClustersCached"
    /\ miss
    /\ Len(clusterCache) = 1
    /\ Count(dropCount, LastKey) >= 1

\* C11 The cache key covers clusterRadius and maxClusterSize: calls for the same
\* hotels and zoom bucket whose configs differ in either never share an entry, so
\* every call returns what its own config computes (at a zoom of its bucket).
EntryPerConfig ==
    op = "calculateClustersCached" =>
        \E zoom \in KeyZooms :
            /\ ToFixed1(zoom) = ToFixed1(args.zoom)
            /\ ret = calculateClusters(args.hotels, zoom, args.config)

\* the call compared with the recorded one: same hotels and config, another zoom of
\* the same toFixed(1) bucket
SameBucketAsRecorded ==
    /\ op = "calculateClustersCached"
    /\ ref # NoRef
    /\ ref[1].hotels = args.hotels
    /\ ref[1].config = args.config
    /\ ref[1].zoom # args.zoom
    /\ (ref[1].zoom + 5) \div 10 = (args.zoom + 5) \div 10

\* no entry for the key of the last call has left the cache since the recorded call
EntryKeptSinceRecorded == Count(dropCount, LastKey) = ref[3]

FewerThanTwoNoCluster ==
    (op = "calculateClusters" /\ Len(args.hotels) < 2) =>
        /\ ret.clusters = <<>>
        /\ ret.individualHotels = args.hotels

\* one hotel passed at a zoom where clustering is on
LoneHotelWhileClustering ==
    /\ op = "calculateClusters"
    /\ Len(args.hotels) = 1
    /\ shouldCluster(args.zoom, args.config)
    /\ ret.individualHotels = args.hotels

\* C14 Minimum cluster size: every returned cluster has at least 2 members and its
\* count is the number of its members; a hotel whose group stayed at one member is
\* in no cluster and is returned in individualHotels.
ClustersHaveMembers ==
    op = "calculateClusters" =>
        /\ \A c \in DOMAIN ret.clusters :
              /\ Len(ret.clusters[c].hotels) >= 2
              /\ ret.clusters[c].count = Len(ret.clusters[c].hotels)
        /\ \A k \in DOMAIN args.hotels :
              args.hotels[k] \notin Range(Members(ret.clusters))
                  => args.hotels[k] \in Range(ret.individualHotels)

\* a cluster of three next to a hotel that found no neighbour
ClusterBesideLoneHotel ==
    /\ op = "calculateClusters"
    /\ \E c \in DOMAIN ret.clusters : ret.clusters[c].count = 3
    /\ Len(ret.individualHotels) = 1

\* C15 Zoom policy: shouldCluster(zoom, config) is true exactly when
\* config.minZoom <= zoom <= config.maxZoom, both ends included; with the default
\* config it is true at zoom 10, 8 and 14 and false at zoom 15.
ClusterInsideZoomRange ==
    op = "shouldCluster" =>
        /\ ret.returned = TRUE
              <=> (args.config.minZoom <= args.zoom /\ args.zoom <= args.config.maxZoom)
        /\ (args.config = DEFAULT_CLUSTERING_CONFIG /\ args.zoom \in {1000, 800, 1400})
              => ret.returned = TRUE
        /\ (args.config = DEFAULT_CLUSTERING_CONFIG /\ args.zoom = 1500)
              => ret.returned = FALSE

\* shouldCluster asked at the upper end of the range
AskedAtMaxZoom ==
    /\ op = "shouldCluster"
    /\ args.zoom = args.config.maxZoom
    /\ args.zoom > args.config.minZoom
    /\ ret.returned = TRUE

Aggregators ==
    {"getClusterCenter", "getClusterBounds", "getClusterAvgRating", "getClusterPriceRange"}

InvalidConfig(config) == config.maxClusterSize <= 0 \/ config.minZoom > config.maxZoom

\* C17 Invalid configuration fails fast: a clustering call whose config has
\* maxClusterSize <= 0 or minZoom > maxZoom fails with InvalidArgument instead of
\* returning a result.
InvalidConfigRejected ==
    (op = "calculateClusters" /\ InvalidConfig(args.config)) =>
        ret = Throws("InvalidArgument")

\* clustering is on and the hotels of the call, at least two and no more than the
\* cap, all lie within the radius of one another
AllWithinRadius ==
    /\ op = "calculateClusters"
    /\ shouldCluster(args.zoom, args.config)
    /\ Len(args.hotels) >= 2
    /\ Len(args.hotels) <= args.config.maxClusterSize
    /\ \A j, k \in DOMAIN args.hotels :
          calculateDistance(args.hotels[j], args.hotels[k])
              <= ClusterRadiusGeo(args.hotels, args.zoom, args.config)

\* C18 All within radius gives one cluster: when clustering is on and the input has
\* at least 2 hotels, all mutually within the radius, and no more hotels than
\* maxClusterSize, the result is exactly one cluster holding every input hotel and
\* individualHotels is empty.
OneClusterOfAll ==
    AllWithinRadius =>
        /\ Len(ret.clusters) = 1
        /\ Range(ret.clusters[1].hotels) = Range(args.hotels)
        /\ ret.clusters[1].count = Len(args.hotels)
        /\ ret.individualHotels = <<>>

\* three hotels or more, exactly as many as the cap allows
OneClusterFilledToCap ==
    /\ AllWithinRadius
    /\ Len(args.hotels) >= 3
    /\ Len(args.hotels) = args.config.maxClusterSize
    /\ Len(ret.clusters) = 1

\* the three hotels of the example, in any order, at zoom 12 with the default config
ExampleCall ==
    /\ op = "calculateClusters"
    /\ Len(args.hotels) = 3
    /\ Range(args.hotels) = Range(TestHotels)
    /\ args.zoom = 1200
    /\ args.config = DEFAULT_CLUSTERING_CONFIG

\* C19 Example: (47.6089, -122.3345), (47.6095, -122.3340) and (47.6200, -122.3500)
\* at zoom 12 with the default config give exactly one cluster, of the first two
\* points, and one individual hotel, the third.
ExampleTwoAndOne ==
    ExampleCall =>
        /\ Len(ret.clusters) = 1
        /\ Range(ret.clusters[1].hotels) = {TestHotels[1], TestHotels[2]}
        /\ ret.clusters[1].count = 2
        /\ ret.individualHotels = <<TestHotels[3]>>

\* the example in the order testClustering passes it
ExampleInTestOrder ==
    /\ ExampleCall
    /\ args.hotels = TestHotels
    /\ ret.clusters[1].hotels = <<TestHotels[1], TestHotels[2]>>

\* C20 Pixel and geographic conversions are inverse: a distance converted to pixels
\* and back at the same latitude and zoom comes back as the distance it was, within
\* the model's resolution (the metres one pixel covers, plus one metre).
RoundTripReturnsDistance ==
    op = "pixelDistanceToGeoDistance" =>
        Abs(ret.returned - args.geoDistance)
            <= pixelDistanceToGeoDistance(1, args.latitude, args.zoom) + 1

\* a round trip through some hundred pixels at a fractional zoom away from the equator
RoundTripThroughManyPixels ==
    /\ op = "pixelDistanceToGeoDistance"
    /\ geoDistanceToPixelDistance(args.geoDistance, args.latitude, args.zoom) >= 100
    /\ args.zoom % 100 # 0
    /\ args.latitude # 0
    /\ ret.returned > 0

\* a result as a partition: the member sets of its clusters and the set of its
\* individual hotels
Partition(result) ==
    [clustered  |-> {Range(result.clusters[c].hotels) : c \in DOMAIN result.clusters},
     individual |-> Range(result.individualHotels)]

\* a and b are within the radius this call uses
Near(a, b) ==
    calculateDistance(a, b) <= ClusterRadiusGeo(args.hotels, args.zoom, args.config)

\* being near is transitive on the hotels of the call, so they fall into groups of
\* mutually near hotels, and no such group is larger than the cap
NearGroupsFitCap ==
    /\ \A a, b, c \in Range(args.hotels) : (Near(a, b) /\ Near(b, c)) => Near(a, c)
    /\ \A a \in Range(args.hotels) :
          Cardinality({b \in Range(args.hotels) : Near(a, b)}) <= args.config.maxClusterSize

EvictsOldestWhenFull ==
    [][ (op' = "calculateClustersCached" /\ calls' = calls + 1) =>
          /\ (miss' /\ Len(clusterCache) = CacheSizeLimit) =>
                clusterCache' =
                    Append(Tail(clusterCache),
                           [key   |-> CacheKey(args'.hotels, args'.zoom, args'.config),
                            value |-> ret'])
          /\ ~miss' => clusterCache' = clusterCache
      ]_vars

\* the hotels cluster c's seed could still take when its turn came: those after the
\* seed in the input, in no earlier cluster, within the radius of the seed
CandidatesOf(c) ==
    LET seed   == ret.clusters[c].hotels[1]
        i      == CHOOSE k \in DOMAIN args.hotels : args.hotels[k] = seed
        before == Range(Members(SubSeq(ret.clusters, 1, c - 1)))
    IN  SelectSeq(SubSeq(args.hotels, i + 1, Len(args.hotels)),
                  LAMBDA h : h \notin before /\ Near(seed, h))

\* the hotels of the clusters after cluster c
LaterMembers(c) == Range(Members(SubSeq(ret.clusters, c + 1, Len(ret.clusters))))

\* C23 Cap overflow: a seed with more unprocessed hotels within the radius than the
\* cap allows ends with exactly maxClusterSize members, the seed and the first
\* maxClusterSize - 1 of them in input order; every other one stays out of this
\* group and seeds or joins a later group (or is returned alone).  With a cap of 1
\* every group is its seed alone, so nothing is clustered.
CapOverflowLeavesRest ==
    op = "calculateClusters" =>
      /\ args.config.maxClusterSize = 1 =>
            (ret.clusters = <<>> /\ ret.individualHotels = args.hotels)
      /\ \A c \in DOMAIN ret.clusters :
            LET cap == args.config.maxClusterSize
                candidates == CandidatesOf(c)
            IN  Len(candidates) > cap - 1 =>
                    /\ ret.clusters[c].hotels =
                           <<ret.clusters[c].hotels[1]>> \o SubSeq(candidates, 1, cap - 1)
                    /\ Len(ret.clusters[c].hotels) = cap
                    /\ \A k \in cap .. Len(candidates) :
                          candidates[k] \in LaterMembers(c) \cup Range(ret.individualHotels)

\* a hotel the full group of a seed had to leave out, and that joined a later cluster
\* although it is within the radius of that seed
LeftOutJoinedLater ==
    /\ op = "calculateClusters"
    /\ \E c \in DOMAIN ret.clusters :
          /\ Len(CandidatesOf(c)) > args.config.maxClusterSize - 1
          /\ \E k \in DOMAIN CandidatesOf(c) : CandidatesOf(c)[k] \in LaterMembers(c)

\* what JavaScript makes of the prices of the model: a number is itself, "150" is
\* 150, "99.5" is 99.5, and a string that starts with no number ("N/A", "$150")
\* cannot be coerced and counts as 0
PriceRead(price_per_night) ==
    IF price_per_night.typeof = "number" THEN price_per_night.value
    ELSE IF price_per_night.value = <<"1", "5", "0">> THEN 15000
    ELSE IF price_per_night.value = <<"9", "9", ".", "5">> THEN 9950
    ELSE 0

PricesRead(hotels) == {PriceRead(hotels[k].price_per_night) : k \in DOMAIN hotels}

OutsideRangeAllIndividual ==
    ( /\ op = "calculateClusters"
      /\ (args.zoom < args.config.minZoom \/ args.zoom > args.config.maxZoom) )
    => ret = [clusters |-> <<>>, individualHotels |-> args.hotels]

\* two hotels 76 m apart, well within the radius, at a zoom above a valid range
CloseHotelsAboveRange ==
    /\ op = "calculateClusters"
    /\ args.config.minZoom <= args.config.maxZoom
    /\ args.zoom > args.config.maxZoom
    /\ Len(args.hotels) >= 2
    /\ Near(args.hotels[1], args.hotels[2])
    /\ ret.individualHotels = args.hotels

\* the counts of the clusters, summed as testClustering sums them (line 491)
TotalClustered(clusters) == Sum([c \in DOMAIN clusters |-> clusters[c].count])

\* the records of the input that are a member of some cluster
ClusterMembers(clusters) ==
    UNION {Range(clusters[c].hotels) : c \in DOMAIN clusters}

\* the hotel_ids of the list are pairwise distinct
DistinctIds(hotels) ==
    \A j, k \in DOMAIN hotels : j # k => hotels[j].hotel_id # hotels[k].hotel_id

\* C26 (as stated) Count conservation for every list, two hotels sharing a
\* hotel_id included: the counts of the clusters plus the number of
\* individualHotels is the number of hotels given.
CountConservedAlways ==
    op = "calculateClusters" =>
        TotalClustered(ret.clusters) + Len(ret.individualHotels) = Len(args.hotels)

\* C26 (amended) Count conservation for lists of pairwise distinct hotel_ids: the
\* counts of the clusters plus the number of individualHotels is the number of
\* hotels given; a hotel that is in no cluster but shares its hotel_id with a
\* cluster member is not in individualHotels either, so the total falls short of
\* hotels.length by the number of such hotels.
CountConservedDistinctIds ==
    op = "calculateClusters" =>
        /\ DistinctIds(args.hotels) =>
              TotalClustered(ret.clusters) + Len(ret.individualHotels) = Len(args.hotels)
        /\ TotalClustered(ret.clusters) + Len(ret.individualHotels)
              + Cardinality({k \in DOMAIN args.hotels :
                               /\ args.hotels[k] \notin ClusterMembers(ret.clusters)
                               /\ args.hotels[k].hotel_id \in ClusteredHotelIds(ret.clusters)})
           = Len(args.hotels)

\* distinct ids, one cluster and one hotel left alone
DistinctIdsClusterAndLone ==
    /\ op = "calculateClusters"
    /\ DistinctIds(args.hotels)
    /\ Len(args.hotels) = 3
    /\ Len(ret.clusters) = 1
    /\ ret.clusters[1].count = 2
    /\ Len(ret.individualHotels) = 1

\* where a hotel of the call stands in the input
InputIndex(hotel) == CHOOSE k \in DOMAIN args.hotels : args.hotels[k] = hotel

\* C27 Seed-only proximity: in every cluster the first member is the seed, the
\* member with the lowest input index, the members follow in input order, and each
\* of them is within the radius of the seed, the one radius computed from the mean
\* latitude of the whole input; nothing is asked about the distance between two
\* members other than the seed.
SeedOnlyProximity ==
    op = "calculateClusters" =>
        \A c \in DOMAIN ret.clusters :
            LET members == ret.clusters[c].hotels
            IN  /\ \A m \in 2..Len(members) :
                      /\ InputIndex(members[m - 1]) < InputIndex(members[m])
                      /\ calculateDistance(members[1], members[m])
                            <= pixelDistanceToGeoDistance(
                                   args.config.clusterRadius,
                                   getClusterCenter(args.hotels).latitude,
                                   args.zoom)
                /\ members = <<members[1]>> \o CandidatesOf(c)
                   \/ Len(members) = args.config.maxClusterSize

\* a cluster with two members, neither the seed, that are farther from each other
\* than the radius
MembersFarFromEachOther ==
    /\ op = "calculateClusters"
    /\ \E c \in DOMAIN ret.clusters :
          \E j, k \in 2..Len(ret.clusters[c].hotels) :
              ~Near(ret.clusters[c].hotels[j], ret.clusters[c].hotels[k])

\* C28 Greedy maximality: when clustering is active and maxClusterSize >= 2, no two
\* hotels returned in individualHotels are within the radius of each other.
NoTwoLoneHotelsNear ==
    ( /\ op = "calculateClusters"
      /\ args.zoom >= args.config.minZoom
      /\ args.zoom <= args.config.maxZoom
      /\ args.config.maxClusterSize >= 2 )
    => \A j, k \in DOMAIN ret.individualHotels :
           j # k => calculateDistance(ret.individualHotels[j], ret.individualHotels[k])
                       > ClusterRadiusGeo(args.hotels, args.zoom, args.config)

\* two hotels returned alone, farther apart than the radius, though both are
\* within the radius of one clustered hotel
TwoLoneHotelsApart ==
    /\ op = "calculateClusters"
    /\ shouldCluster(args.zoom, args.config)
    /\ args.config.maxClusterSize >= 2
    /\ Len(ret.clusters) >= 1
    /\ Len(ret.individualHotels) >= 2
    /\ \E h \in ClusterMembers(ret.clusters) :
          \A k \in DOMAIN ret.individualHotels : Near(h, ret.individualHotels[k])

-----------------------------------------------------------------------------
(* The useDebounced hook (useDebounced.ts lines 9-23) in one mounted component.
   Time is counted in ticks of 100 ms.  A render and the effect it schedules are
   two steps: React runs the cleanup of the previous effect and the new effect
   after the render is committed, and a timer that is already due may fire in
   between. *)

\* the values the parent passes (zoom levels) and the delays (300 ms as in
\* PERFORMANCE_OPTIMIZATIONS.md line 30, and 200 ms)
DebouncedValues == {12, 13, 14}
Delays == {2, 3}
LongestDelay == CHOOSE d \in Delays : \A e \in Delays : e <= d

\* nothing emitted yet
NoEmission ==
    [emitted |-> FALSE, value |-> 0, input |-> 0, held |-> 0, delay |-> 0, effectPending |-> FALSE]

\* clearTimeout that cancels nothing
ClearTimeoutNothing(timers, handler) == timers

\* line 18: clearTimeout(handler); a handle that is not pending is ignored
ClearTimeout(timers, handler) == {t \in timers : t.handler # handler}

\* lines 13-15: setTimeout(() => setDebouncedValue(value), delay), capturing value
SetTimeout(timers, handler, value, delay) ==
    timers \cup {[handler |-> handler, value |-> value, delay |-> delay, remaining |-> delay]}

\* line 10, first render: useState(value); the first effect is scheduled
Mount(value, delay) ==
    [mounted |-> TRUE, value |-> value, delay |-> delay, debouncedValue |-> value,
     timers |-> {}, handler |-> 0, nextHandler |-> 1,
     effectPending |-> TRUE, cleanupPending |-> FALSE,
     held |-> 0, renders |-> 0, last |-> NoEmission]

\* the parent renders the component with another value or delay (the dependency
\* array of line 20 changed): the effect is scheduled.  React runs the passive
\* effects of the previous render before it renders again.
Render(value, delay) ==
    /\ debounce.mounted
    /\ ~debounce.effectPending
    /\ debounce.renders < MaxRenders
    /\ <<value, delay>> # <<debounce.value, debounce.delay>>
    /\ debounce' = [debounce EXCEPT !.value = value, !.delay = delay,
                                    !.effectPending = TRUE,
                                    !.held = IF value = debounce.value THEN @ ELSE 0,
                                    !.renders = @ + 1]
    /\ UNCHANGED <<clusterCache, op, args, ret, miss, calls, ref, missCount, dropCount, hotelMap>>

\* lines 12-20: the cleanup of the previous effect (line 18), then the effect
\* body (lines 13-15)
RunEffect ==
    /\ debounce.mounted
    /\ debounce.effectPending
    /\ debounce' = [debounce EXCEPT
                       !.timers = SetTimeout(ClearTimeout(@, debounce.handler),
                                             debounce.nextHandler, debounce.value, debounce.delay),
                       !.handler = debounce.nextHandler,
                       !.nextHandler = @ + 1,
                       !.effectPending = FALSE]
    /\ UNCHANGED <<clusterCache, op, args, ret, miss, calls, ref, missCount, dropCount, hotelMap>>

\* 100 ms pass; a scheduled effect or cleanup runs long before that
Tick ==
    /\ debounce.mounted
    /\ ~debounce.effectPending
    /\ debounce' = [debounce EXCEPT
                       !.timers = {[t EXCEPT !.remaining = Max(0, @ - 1)] : t \in @},
                       !.held = Min(LongestDelay, @ + 1)]
    /\ UNCHANGED <<clusterCache, op, args, ret, miss, calls, ref, missCount, dropCount, hotelMap>>

\* lines 13-15: a due timer runs its callback, setDebouncedValue(value) with the
\* value it captured; on an unmounted component the state update does nothing
TimerFires ==
    \E t \in debounce.timers :
        /\ t.remaining = 0
        /\ debounce' =
              IF debounce.mounted
              THEN [debounce EXCEPT
                       !.timers = @ \ {t},
                       !.debouncedValue = t.value,
                       !.last = [emitted |-> TRUE, value |-> t.value, input |-> debounce.value,
                                 held |-> debounce.held, delay |-> t.delay,
                                 effectPending |-> debounce.effectPending]]
              ELSE [debounce EXCEPT !.timers = @ \ {t}]
        /\ UNCHANGED <<clusterCache, op, args, ret, miss, calls, ref, missCount, dropCount, hotelMap>>

\* the component is removed; the cleanup of its effect is scheduled
Unmount ==
    /\ debounce.mounted
    /\ ~debounce.effectPending
    /\ debounce' = [debounce EXCEPT !.mounted = FALSE, !.cleanupPending = TRUE]
    /\ UNCHANGED <<clusterCache, op, args, ret, miss, calls, ref, missCount, dropCount, hotelMap>>

\* lines 17-19 at unmount
RunCleanup ==
    /\ debounce.cleanupPending
    /\ debounce' = [debounce EXCEPT !.timers = ClearTimeout(@, debounce.handler),
                                    !.cleanupPending = FALSE]
    /\ UNCHANGED <<clusterCache, op, args, ret, miss, calls, ref, missCount, dropCount, hotelMap>>

\* SpecDebounce: one component using the hook, rendered with changing values and
\* delays while time passes
InitDebounce ==
    /\ QuietCalls
    /\ args = NoArgs
    /\ hotelMap = NotMounted
    /\ \E value \in DebouncedValues, delay \in Delays : debounce = Mount(value, delay)

NextDebounce ==
    \/ \E value \in DebouncedValues, delay \in Delays : Render(value, delay)
    \/ RunEffect
    \/ Tick
    \/ TimerFires
    \/ Unmount
    \/ RunCleanup

SpecDebounce == InitDebounce /\ [][NextDebounce]_vars

\* C29 (as stated) useDebounced cancels the pending timer whenever value or delay
\* changes or the component unmounts: at most one timer is pending at any time,
\* and the debounced output is only ever set to a value that is the current input
\* and has been for a full delay; a superseded value is never emitted.
NeverEmitsSuperseded ==
    debounce.mounted =>
        /\ Cardinality(debounce.timers) <= 1
        /\ debounce.last.emitted =>
              /\ debounce.last.value = debounce.last.input
              /\ debounce.last.held >= debounce.last.delay

\* C29 (amended) The timer is cancelled when the effect of the render with the
\* changed value or delay runs, and by the cleanup at unmount: at most one timer is
\* pending at any time, and once that effect has run the debounced output is only
\* set to the current input, which has then been current for a full delay.  A
\* timer that falls due between a render and the effect of that render still
\* emits the value the render superseded.
NeverEmitsSupersededAfterEffect ==
    /\ debounce.mounted \/ debounce.cleanupPending => Cardinality(debounce.timers) <= 1
    /\ (debounce.mounted /\ debounce.last.emitted /\ ~debounce.last.effectPending) =>
          /\ debounce.last.value = debounce.last.input
          /\ debounce.last.held >= debounce.last.delay
    /\ (~debounce.mounted /\ ~debounce.cleanupPending) => debounce.timers = {}

\* a value was superseded, its timer cancelled, and the value that replaced it
\* was emitted after its own full delay
EmitsAfterSupersededCancelled ==
    /\ debounce.mounted
    /\ debounce.renders >= 1
    /\ debounce.last.emitted
    /\ ~debounce.last.effectPending
    /\ debounce.last.value = debounce.value
    /\ debounce.handler >= 2
    /\ debounce.timers = {}

-----------------------------------------------------------------------------
(* The fly-to effect of HotelMap (HotelMap.tsx lines 246-283).  The map is loaded
   (mapRef.current is set).  A hotel is named by its hotel_id, null by 0; a timeout
   handle is a positive number, null is 0. *)

\* the selectedHotel prop: null or one of three hotels of the dataset
Selectable == 0..3

\* lines 83-92, first render, with the selectedHotel the parent passes; the
\* effect of line 247 is scheduled
MountMap(selectedHotel) ==
    [mounted |-> TRUE, selectedHotel |-> selectedHotel, isAnimating |-> FALSE,
     animationTimeoutRef |-> 0, timers |-> {}, nextHandler |-> 1,
     flyToCenter |-> 0,
     effectPending |-> TRUE, renderedIsAnimating |-> FALSE, selections |-> 0]

\* the parent passes another selectedHotel: the dependency array of line 274
\* changed, the effect is scheduled and closes over the isAnimating of this render
Select(hotel) ==
    /\ hotelMap.mounted
    /\ ~hotelMap.effectPending
    /\ hotelMap.selections < MaxSelections
    /\ hotel # hotelMap.selectedHotel
    /\ hotelMap' = [hotelMap EXCEPT !.selectedHotel = hotel, !.effectPending = TRUE,
                                    !.renderedIsAnimating = hotelMap.isAnimating,
                                    !.selections = @ + 1]
    /\ UNCHANGED <<clusterCache, op, args, ret, miss, calls, ref, missCount, dropCount, debounce>>

\* lines 247-274: the effect, with the isAnimating of the render that scheduled it
RunFlyEffect ==
    /\ hotelMap.mounted
    /\ hotelMap.effectPending
    /\ hotelMap' =
          IF hotelMap.selectedHotel # 0 /\ ~hotelMap.renderedIsAnimating
          THEN [hotelMap EXCEPT
                   !.isAnimating = TRUE,
                   !.flyToCenter = hotelMap.selectedHotel,
                   !.timers = ClearTimeout(@, hotelMap.animationTimeoutRef)
                                 \cup {[handler |-> hotelMap.nextHandler]},
                   !.animationTimeoutRef = hotelMap.nextHandler,
                   !.nextHandler = @ + 1,
                   !.effectPending = FALSE]
          ELSE [hotelMap EXCEPT !.effectPending = FALSE]
    /\ UNCHANGED <<clusterCache, op, args, ret, miss, calls, ref, missCount, dropCount, debounce>>

\* lines 267-272: the timeout set 950 ms earlier runs
AnimationTimeout ==
    \E t \in hotelMap.timers :
        /\ hotelMap' = [hotelMap EXCEPT !.timers = @ \ {t},
                                        !.isAnimating = IF hotelMap.mounted THEN FALSE ELSE @,
                                        !.animationTimeoutRef = 0]
        /\ UNCHANGED <<clusterCache, op, args, ret, miss, calls, ref, missCount, dropCount, debounce>>

\* lines 277-290: the cleanups at unmount clear the timeout and the cluster cache
UnmountMap ==
    /\ hotelMap.mounted
    /\ ~hotelMap.effectPending
    /\ hotelMap' = [hotelMap EXCEPT !.mounted = FALSE,
                                    !.timers = ClearTimeout(@, hotelMap.animationTimeoutRef)]
    /\ clusterCache' = CacheClear(clusterCache)
    /\ UNCHANGED <<op, args, ret, miss, calls, ref, missCount, dropCount, debounce>>

\* SpecFly: the parent changes the selection while animations run and end
InitFly ==
    /\ QuietCalls
    /\ args = NoArgs
    /\ debounce = NotMounted
    /\ \E hotel \in Selectable : hotelMap = MountMap(hotel)

NextFly ==
    \/ \E hotel \in Selectable : Select(hotel)
    \/ RunFlyEffect
    \/ AnimationTimeout
    \/ UnmountMap

SpecFly == InitFly /\ [][NextFly]_vars

\* C30 Every change of selectedHotel to a hotel ends in a flyTo centred on that
\* hotel, also when the selection changes while isAnimating is true, and
\* isAnimating returns to false after the last animation: once the map is at rest
\* (no effect scheduled, no timeout pending) isAnimating is false and the last
\* flyTo was centred on the selected hotel.
FliesToEverySelection ==
    (hotelMap.mounted /\ ~hotelMap.effectPending /\ hotelMap.timers = {}) =>
        /\ ~hotelMap.isAnimating
        /\ hotelMap.selectedHotel # 0 => hotelMap.flyToCenter = hotelMap.selectedHotel

====
